---- MODULE Spec2Model ----
(***************************************************************************)
(* Model of src/main.py: the Pub/Sub-triggered Cloud Function              *)
(* employee_timelog_list(event, context).                                  *)
(*                                                                         *)
(* One invocation is a record of local variables indexed by an invocation  *)
(* id.  The steps of the try block (decode, parse, fetch+serialize, one    *)
(* iteration of the grouping loop, forward) are the actions; every step    *)
(* that raises runs the except block (one logger.exception, then raise).   *)
(* The collaborators (TimeLog.objects.all, TimeLogSerializer,              *)
(* send_dashboard_update) are inputs: their results are drawn with \E.     *)
(***************************************************************************)
EXTENDS Integers, Sequences, FiniteSets, TLC

VARIABLES
    pc,            \* pc[i]: the next step of invocation i
    event,         \* event[i]: the Pub/Sub event handed to invocation i
    raw_data,      \* raw_data[i]: line 45
    data,          \* data[i]: line 51 (never read again)
    serialized,    \* serialized[i]: serializer.data, lines 56-57
    msg_str,       \* msg_str[i]: line 57
    idx,           \* idx[i]: number of loop iterations of line 62 done
    grouped_logs,  \* grouped_logs[i]: the insertion-ordered dict of line 61
    raised,        \* raised[i]: the exception that left the handler, or NoError
    error_logs,    \* error_logs[i]: the exceptions logged by logger.exception, line 76
    parse_passes,  \* parse_passes[i]: number of json.loads calls made
    fetch_log,     \* fetch_log[i]: outcomes of TimeLog.objects.all()/serializer calls
    send_log,      \* send_log[i]: outcomes of invocation i's send_dashboard_update calls
    sent           \* all send_dashboard_update calls, in call order

vars == <<pc, event, raw_data, data, serialized, msg_str, idx, grouped_logs,
          raised, error_logs, parse_passes, fetch_log, send_log, sent>>

-----------------------------------------------------------------------------
(* Bounds *)

MaxLogs == 3        \* longest serializer.data in Spec
MaxWrap == 2        \* deepest JSON-string wrapping of the message text
MaxLogsC == 2       \* longest serializer.data in SpecConcurrent

-----------------------------------------------------------------------------
(* Python values held by the identifying fields *)

PyNone == [t |-> "NoneType", n |-> 0, s |-> ""]
PyInt(n) == [t |-> "int", n |-> n, s |-> ""]
PyStr(s) == [t |-> "str", n |-> 0, s |-> s]

\* bool(v): the truth value `or` tests (line 63)
Truthy(v) ==
    CASE v.t = "NoneType" -> FALSE
      [] v.t = "int" -> v.n # 0
      [] v.t = "str" -> v.s # ""

Digits == <<"0", "1", "2", "3", "4", "5", "6", "7", "8", "9">>

\* str(v) of line 65; the integers of the model are single digits
str(v) ==
    CASE v.t = "NoneType" -> "None"
      [] v.t = "int" -> Digits[v.n + 1]
      [] v.t = "str" -> v.s

\* dict.get(key): the value, or None when the key is missing (line 63)
Get(timesheet, key) ==
    IF key \in DOMAIN timesheet THEN timesheet[key] ELSE PyNone

\* x or y (line 63)
Or(x, y) == IF Truthy(x) THEN x ELSE y

\* line 63: emp_id = timesheet.get("employee_id") or timesheet.get("employee")
emp_id(timesheet) == Or(Get(timesheet, "employee_id"), Get(timesheet, "employee"))

-----------------------------------------------------------------------------
(* The insertion-ordered dict grouped_logs: a sequence of [key, logs] items *)

HasKey(d, key) == \E k \in 1..Len(d) : d[k].key = key

\* mutant of Append2: a record equal to one already in the group is not appended
Append2Unique(d, key, x) ==
    IF HasKey(d, key)
    THEN [k \in 1..Len(d) |->
             IF d[k].key = key /\ ~\E j \in 1..Len(d[k].logs) : d[k].logs[j] = x
             THEN [d[k] EXCEPT !.logs = Append(@, x)] ELSE d[k]]
    ELSE Append(d, [key |-> key, logs |-> <<x>>])

\* d[key].append(x), after d[key] = [] when the key is new (lines 66-68)
Append2(d, key, x) ==
    IF HasKey(d, key)
    THEN [k \in 1..Len(d) |->
             IF d[k].key = key THEN [d[k] EXCEPT !.logs = Append(@, x)] ELSE d[k]]
    ELSE Append(d, [key |-> key, logs |-> <<x>>])

\* one iteration of the loop body, lines 63-68
GroupOne(d, timesheet) ==
    LET e == emp_id(timesheet) IN
    IF e # PyNone THEN Append2(d, str(e), timesheet) ELSE d

-----------------------------------------------------------------------------
(* The inbound message *)

\* A JSON text is k string-literal wrappers around a terminal document:
\* <<"dict">> is an object, <<"str", "dict">> is a string literal whose content
\* is the text of an object, <<"bad">> is text that is not JSON, <<>> is the
\* empty text, and <<"str">> is the literal of the empty string.
Terminals == {"dict", "bad"}

Wrapped(k, tail) == [j \in 1..(k + Len(tail)) |-> IF j <= k THEN "str" ELSE tail[j - k]]

Texts == { Wrapped(k, tail) : k \in 0..MaxWrap,
                              tail \in {<<>>} \cup { <<x>> : x \in Terminals } }

JSONDecodeError == [type |-> "JSONDecodeError", text |-> <<>>]

\* json.loads(text): a str for a string literal, the document for a terminal,
\* JSONDecodeError (returned here, raised by the caller) for anything else
json_loads(text) ==
    IF text = <<>> \/ Head(text) = "bad" THEN JSONDecodeError
    ELSE IF Head(text) = "str" THEN [type |-> "str", text |-> Tail(text)]
    ELSE [type |-> Head(text), text |-> <<>>]

\* An event: whether it has the "data" key, and what base64.b64decode and
\* bytes.decode see in it.  noise: characters outside the base64 alphabet,
\* which b64decode (validate=False) discards; padded: the remaining characters
\* are correctly padded; utf8: the bytes are valid UTF-8, of text `text`.
MakeEvent(h, n, p, u, t) ==
    [has_data |-> h, noise |-> n, padded |-> p, utf8 |-> u, text |-> t]

Events ==
    {MakeEvent(FALSE, FALSE, TRUE, TRUE, <<>>)}
    \cup { MakeEvent(TRUE, n, p, TRUE, t) : n \in BOOLEAN, p \in BOOLEAN, t \in Texts }
    \cup { MakeEvent(TRUE, n, TRUE, FALSE, <<>>) : n \in BOOLEAN }

NoEvent == MakeEvent(FALSE, FALSE, FALSE, FALSE, <<>>)

\* base64.b64decode(event["data"]).decode("utf-8"), line 45: the text, or the
\* name of the exception raised
DecodeResult(ev) ==
    IF ~ev.has_data THEN [err |-> "KeyError", text |-> <<>>]
    ELSE IF ~ev.padded THEN [err |-> "binascii.Error", text |-> <<>>]
    ELSE IF ~ev.utf8 THEN [err |-> "UnicodeDecodeError", text |-> <<>>]
    ELSE [err |-> "none", text |-> ev.text]

NoData == [type |-> "unset", text |-> <<>>]

RECURSIVE LoadsWhileStr(_, _)
LoadsWhileStr(text, n) ==
    LET v == json_loads(text) IN
    IF v = JSONDecodeError
    THEN [err |-> "JSONDecodeError", data |-> NoData, passes |-> n]
    ELSE IF v.type = "str" THEN LoadsWhileStr(v.text, n + 1)
    ELSE [err |-> "none", data |-> v, passes |-> n]

\* mutant of ParseResult: json.loads is repeated for as long as the result is a str
ParseResultUnwrapAll(raw) == LoadsWhileStr(raw, 1)

\* lines 49-51: first_pass = json.loads(raw_data);
\* data = json.loads(first_pass) if isinstance(first_pass, str) else first_pass
ParseResult(raw) ==
    LET first_pass == json_loads(raw) IN
    IF first_pass = JSONDecodeError
    THEN [err |-> "JSONDecodeError", data |-> NoData, passes |-> 1]
    ELSE IF first_pass.type = "str"
    THEN LET second == json_loads(first_pass.text) IN
         IF second = JSONDecodeError
         THEN [err |-> "JSONDecodeError", data |-> NoData, passes |-> 2]
         ELSE [err |-> "none", data |-> second, passes |-> 2]
    ELSE [err |-> "none", data |-> first_pass, passes |-> 1]

-----------------------------------------------------------------------------
(* The serialized records *)

EmployeeIdValues == {PyInt(0), PyInt(5), PyStr("5")}
EmployeeValues == {PyInt(5), PyStr("")}

\* serialized TimeLog mappings, restricted to the identifying fields
Timesheets ==
    {<<>>}
    \cup { [f \in {"employee_id"} |-> v] : v \in EmployeeIdValues }
    \cup { [f \in {"employee"} |-> v] : v \in EmployeeValues }
    \cup { [f \in {"employee_id", "employee"} |->
               IF f = "employee_id" THEN v ELSE w] :
           v \in EmployeeIdValues, w \in EmployeeValues }

SeqsUpTo(S, n) == UNION { [1..k -> S] : k \in 0..n }

\* line 57
Summary(n) == <<"Bulk Timesheet Lookup: found ", n, " timelog records.">>

-----------------------------------------------------------------------------
(* The handler *)

Invocations == {"i1", "i2"}

NoError == "none"

Init ==
    /\ pc = [i \in Invocations |-> "idle"]
    /\ event = [i \in Invocations |-> NoEvent]
    /\ raw_data = [i \in Invocations |-> <<>>]
    /\ data = [i \in Invocations |-> NoData]
    /\ serialized = [i \in Invocations |-> <<>>]
    /\ msg_str = [i \in Invocations |-> <<>>]
    /\ idx = [i \in Invocations |-> 0]
    /\ grouped_logs = [i \in Invocations |-> <<>>]
    /\ raised = [i \in Invocations |-> NoError]
    /\ error_logs = [i \in Invocations |-> <<>>]
    /\ parse_passes = [i \in Invocations |-> 0]
    /\ fetch_log = [i \in Invocations |-> <<>>]
    /\ send_log = [i \in Invocations |-> <<>>]
    /\ sent = <<>>

\* The infrastructure calls employee_timelog_list(event, context), line 26
Invoke(i, evs) ==
    /\ pc[i] = "idle"
    /\ \E ev \in evs : event' = [event EXCEPT ![i] = ev]
    /\ pc' = [pc EXCEPT ![i] = "decode"]
    /\ UNCHANGED <<raw_data, data, serialized, msg_str, idx, grouped_logs,
                   raised, error_logs, parse_passes, fetch_log, send_log, sent>>

\* mutant of Except: the error is logged and swallowed (no `raise`)
ExceptSwallowed(i, e) ==
    /\ error_logs' = [error_logs EXCEPT ![i] = Append(@, e)]
    /\ raised' = raised
    /\ pc' = [pc EXCEPT ![i] = "done"]

\* lines 75-78: except Exception as e: logger.exception(...); raise
Except(i, e) ==
    /\ error_logs' = [error_logs EXCEPT ![i] = Append(@, e)]
    /\ raised' = [raised EXCEPT ![i] = e]
    /\ pc' = [pc EXCEPT ![i] = "failed"]

\* lines 45-46
Decode(i) ==
    /\ pc[i] = "decode"
    /\ LET r == DecodeResult(event[i]) IN
       IF r.err # "none"
       THEN /\ Except(i, r.err)
            /\ UNCHANGED raw_data
       ELSE /\ raw_data' = [raw_data EXCEPT ![i] = r.text]
            /\ pc' = [pc EXCEPT ![i] = "parse"]
            /\ UNCHANGED <<raised, error_logs>>
    /\ UNCHANGED <<event, data, serialized, msg_str, idx, grouped_logs,
                   parse_passes, fetch_log, send_log, sent>>

\* lines 49-51
Parse(i) ==
    /\ pc[i] = "parse"
    /\ LET r == ParseResult(raw_data[i]) IN
       /\ parse_passes' = [parse_passes EXCEPT ![i] = r.passes]
       /\ IF r.err # "none"
          THEN /\ Except(i, r.err)
               /\ UNCHANGED data
          ELSE /\ data' = [data EXCEPT ![i] = r.data]
               /\ pc' = [pc EXCEPT ![i] = "fetch"]
               /\ UNCHANGED <<raised, error_logs>>
    /\ UNCHANGED <<event, raw_data, serialized, msg_str, idx, grouped_logs,
                   fetch_log, send_log, sent>>

\* lines 53-61: TimeLog.objects.all(), TimeLogSerializer(logs, many=True).data,
\* msg_str, grouped_logs = {}.  The store and the serializer are collaborators:
\* they return any sequence of `seqs`, or one of them raises.
Fetch(i, seqs) ==
    /\ pc[i] = "fetch"
    /\ \/ \E e \in {"StoreError", "SerializerError"} :
             /\ fetch_log' = [fetch_log EXCEPT ![i] = Append(@, e)]
             /\ Except(i, e)
             /\ UNCHANGED <<serialized, msg_str, idx, grouped_logs>>
       \/ \E logs \in seqs :
             /\ fetch_log' = [fetch_log EXCEPT ![i] = Append(@, "ok")]
             /\ serialized' = [serialized EXCEPT ![i] = logs]
             /\ msg_str' = [msg_str EXCEPT ![i] = Summary(Len(logs))]
             /\ idx' = [idx EXCEPT ![i] = 0]
             /\ grouped_logs' = [grouped_logs EXCEPT ![i] = <<>>]
             /\ pc' = [pc EXCEPT ![i] = "group"]
             /\ UNCHANGED <<raised, error_logs>>
    /\ UNCHANGED <<event, raw_data, data, parse_passes, send_log, sent>>

\* lines 62-68: one iteration of `for timesheet in serializer.data`
Group(i) ==
    /\ pc[i] = "group"
    /\ idx[i] < Len(serialized[i])
    /\ idx' = [idx EXCEPT ![i] = @ + 1]
    /\ grouped_logs' = [grouped_logs EXCEPT
                           ![i] = GroupOne(@, serialized[i][idx[i] + 1])]
    /\ UNCHANGED <<pc, event, raw_data, data, serialized, msg_str, raised,
                   error_logs, parse_passes, fetch_log, send_log, sent>>

\* mutant of DashboardCall: the target is taken from the parsed payload
DashboardCallScoped(i) ==
    [by |-> i,
     target |-> IF data[i].type = "dict" THEN "all" ELSE "one",
     event_type |-> "bulk_timelog_lookup",
     timelogs |-> grouped_logs[i],
     message |-> msg_str[i]]

\* the arguments of the call of line 72
DashboardCall(i) ==
    [by |-> i,
     target |-> "all",
     event_type |-> "bulk_timelog_lookup",
     timelogs |-> grouped_logs[i],
     message |-> msg_str[i]]

\* mutant of Forward: nothing is sent when no record was grouped
ForwardUnlessEmpty(i) ==
    /\ pc[i] = "group"
    /\ idx[i] = Len(serialized[i])
    /\ IF grouped_logs[i] = <<>>
       THEN /\ pc' = [pc EXCEPT ![i] = "done"]
            /\ UNCHANGED <<sent, send_log, raised, error_logs>>
       ELSE /\ sent' = Append(sent, DashboardCall(i))
            /\ \/ /\ send_log' = [send_log EXCEPT ![i] = Append(@, "ok")]
                  /\ pc' = [pc EXCEPT ![i] = "done"]
                  /\ UNCHANGED <<raised, error_logs>>
               \/ /\ send_log' = [send_log EXCEPT ![i] = Append(@, "NotificationError")]
                  /\ Except(i, "NotificationError")
    /\ UNCHANGED <<event, raw_data, data, serialized, msg_str, idx, grouped_logs,
                   parse_passes, fetch_log>>

\* mutant of Forward: a payload equal to one already sent is not sent again
ForwardDeduplicated(i) ==
    /\ pc[i] = "group"
    /\ idx[i] = Len(serialized[i])
    /\ IF \E c \in 1..Len(sent) :
             sent[c].timelogs = grouped_logs[i] /\ sent[c].message = msg_str[i]
       THEN /\ send_log' = [send_log EXCEPT ![i] = Append(@, "ok")]
            /\ pc' = [pc EXCEPT ![i] = "done"]
            /\ UNCHANGED <<sent, raised, error_logs>>
       ELSE /\ sent' = Append(sent, DashboardCall(i))
            /\ \/ /\ send_log' = [send_log EXCEPT ![i] = Append(@, "ok")]
                  /\ pc' = [pc EXCEPT ![i] = "done"]
                  /\ UNCHANGED <<raised, error_logs>>
               \/ /\ send_log' = [send_log EXCEPT ![i] = Append(@, "NotificationError")]
                  /\ Except(i, "NotificationError")
    /\ UNCHANGED <<event, raw_data, data, serialized, msg_str, idx, grouped_logs,
                   parse_passes, fetch_log>>

\* lines 72-73, after the loop is exhausted: send_dashboard_update returns or raises
Forward(i) ==
    /\ pc[i] = "group"
    /\ idx[i] = Len(serialized[i])
    /\ sent' = Append(sent, DashboardCall(i))
    /\ \/ /\ send_log' = [send_log EXCEPT ![i] = Append(@, "ok")]
          /\ pc' = [pc EXCEPT ![i] = "done"]
          /\ UNCHANGED <<raised, error_logs>>
       \/ /\ send_log' = [send_log EXCEPT ![i] = Append(@, "NotificationError")]
          /\ Except(i, "NotificationError")
    /\ UNCHANGED <<event, raw_data, data, serialized, msg_str, idx, grouped_logs,
                   parse_passes, fetch_log>>

\* one invocation, every serialized sequence up to MaxLogs
Next ==
    \E i \in {"i1"} :
        \/ Invoke(i, Events)
        \/ Decode(i)
        \/ Parse(i)
        \/ Fetch(i, SeqsUpTo(Timesheets, MaxLogs))
        \/ Group(i)
        \/ Forward(i)

Spec == Init /\ [][Next]_vars

\* the events and serialized records of the two-invocation specification
EventsC ==
    { MakeEvent(TRUE, FALSE, TRUE, TRUE, <<"dict">>),
      MakeEvent(TRUE, FALSE, TRUE, TRUE, <<"str", "str", "dict">>),
      MakeEvent(TRUE, FALSE, TRUE, TRUE, <<"bad">>),
      MakeEvent(TRUE, FALSE, FALSE, TRUE, <<"dict">>) }

TimesheetsC ==
    { <<>>,
      [f \in {"employee_id"} |-> PyInt(5)],
      [f \in {"employee"} |-> PyInt(5)] }

\* two invocations, started by the infrastructure at any time (for the same
\* event or for different ones) and interleaved at every step
NextConcurrent ==
    \E i \in Invocations :
        \/ Invoke(i, EventsC)
        \/ Decode(i)
        \/ Parse(i)
        \/ Fetch(i, SeqsUpTo(TimesheetsC, MaxLogsC))
        \/ Group(i)
        \/ Forward(i)

SpecConcurrent == Init /\ [][NextConcurrent]_vars

-----------------------------------------------------------------------------
(* Definitions shared by the properties *)

Terminated(i) == pc[i] \in {"done", "failed"}

\* the part of serializer.data the loop has consumed
Consumed(i) == SubSeq(serialized[i], 1, idx[i])

\* the calls of send_dashboard_update made by invocation i
CallsBy(i) == SelectSeq(sent, LAMBDA c : c.by = i)

\* a record the loop does not skip, and the key it is filed under
Kept(timesheet) == emp_id(timesheet) # PyNone
KeyOf(timesheet) == str(emp_id(timesheet))

FirstPos(logs, key) ==
    CHOOSE k \in 1..Len(logs) :
        /\ Kept(logs[k]) /\ KeyOf(logs[k]) = key
        /\ \A j \in 1..(k - 1) : ~(Kept(logs[j]) /\ KeyOf(logs[j]) = key)

\* d is the grouping of logs: keys distinct and in first-seen order, every kept
\* record's key present, each group the kept records of its key in the order
\* of logs (nothing reordered, removed or repeated)
IsGroupingOf(d, logs) ==
    /\ \A a, b \in 1..Len(d) : a # b => d[a].key # d[b].key
    /\ \A k \in 1..Len(logs) : Kept(logs[k]) => HasKey(d, KeyOf(logs[k]))
    /\ \A a \in 1..Len(d) :
          /\ d[a].logs # <<>>
          /\ d[a].logs = SelectSeq(logs, LAMBDA t : Kept(t) /\ KeyOf(t) = d[a].key)
    /\ \A a, b \in 1..Len(d) :
          a < b => FirstPos(logs, d[a].key) < FirstPos(logs, d[b].key)

-----------------------------------------------------------------------------
(* C4 *)

\* C4: at every point of the grouping loop and in every forwarded payload, the
\* keys of grouped_logs are in the order their identifiers were first seen in
\* the consumed records, and each group holds exactly the consumed records of
\* its key, in retrieval order, equal records included.
C4_OrderPreserved ==
    /\ \A i \in Invocations :
          pc[i] \in {"group", "done", "failed"} /\ fetch_log[i] = <<"ok">>
              => IsGroupingOf(grouped_logs[i], Consumed(i))
    /\ \A c \in 1..Len(sent) :
          IsGroupingOf(sent[c].timelogs, serialized[sent[c].by])

\* a finished loop over three records: two equal records of one employee
\* around a record of another employee
C4_Witness ==
    \E i \in Invocations :
        /\ pc[i] = "done"
        /\ Len(serialized[i]) = 3
        /\ serialized[i][1] = serialized[i][3]
        /\ Len(grouped_logs[i]) = 2
        /\ grouped_logs[i][1].logs = <<serialized[i][1], serialized[i][3]>>
        /\ grouped_logs[i][2].logs = <<serialized[i][2]>>

-----------------------------------------------------------------------------
(* C1 *)

\* the steps of invocation i that have raised, read off its inputs: the event,
\* the decoded text and the collaborators' outcomes
DecodeFails(i) ==
    pc[i] \notin {"idle", "decode"}
    /\ (~event[i].has_data \/ ~event[i].padded \/ ~event[i].utf8)

ParseFails(i) ==
    /\ pc[i] \notin {"idle", "decode", "parse"}
    /\ ~DecodeFails(i)
    /\ \/ json_loads(raw_data[i]) = JSONDecodeError
       \/ /\ json_loads(raw_data[i]).type = "str"
          /\ json_loads(json_loads(raw_data[i]).text) = JSONDecodeError

FetchFails(i) == fetch_log[i] # <<>> /\ fetch_log[i] # <<"ok">>

ForwardFails(i) == send_log[i] # <<>> /\ send_log[i] # <<"ok">>

ErrorOf(i) ==
    CASE DecodeFails(i) ->
           IF ~event[i].has_data THEN "KeyError"
           ELSE IF ~event[i].padded THEN "binascii.Error"
           ELSE "UnicodeDecodeError"
      [] ParseFails(i) -> "JSONDecodeError"
      [] FetchFails(i) -> fetch_log[i][1]
      [] ForwardFails(i) -> send_log[i][1]
      [] OTHER -> NoError

\* a payload that is not valid base64: it holds characters outside the
\* alphabet, or what is left of it is not correctly padded
Malformed(ev) == ev.has_data /\ (ev.noise \/ ~ev.padded)

-----------------------------------------------------------------------------
(* C2, C3, C5, C7: the identifying fields *)

Present(timesheet, field) == field \in DOMAIN timesheet

\* timesheet is filed under key in d
FiledUnder(d, key, timesheet) ==
    \E a \in 1..Len(d) :
        d[a].key = key /\ \E k \in 1..Len(d[a].logs) : d[a].logs[k] = timesheet

Filed(d, timesheet) == \E a \in 1..Len(d) : FiledUnder(d, d[a].key, timesheet)

\* the identifier as the specification selects it: employee_id when that field
\* is present, employee only when employee_id is absent
Identifier(timesheet) ==
    IF Present(timesheet, "employee_id") THEN timesheet["employee_id"]
    ELSE timesheet["employee"]

HasIdentifier(timesheet) ==
    Present(timesheet, "employee_id") \/ Present(timesheet, "employee")

\* C2: every consumed record with employee_id present is filed under the string
\* form of employee_id and under no other key; a record with only employee is
\* filed under the string form of employee; a record is skipped exactly when
\* both fields are absent.
C2_IdentifierSelection ==
    \A i \in Invocations :
        pc[i] = "group" =>
            \A k \in 1..idx[i] :
                LET t == serialized[i][k] IN
                /\ HasIdentifier(t)
                      => /\ FiledUnder(grouped_logs[i], str(Identifier(t)), t)
                         /\ \A a \in 1..Len(grouped_logs[i]) :
                               FiledUnder(grouped_logs[i], grouped_logs[i][a].key, t)
                                   => grouped_logs[i][a].key = str(Identifier(t))
                /\ ~HasIdentifier(t) => ~Filed(grouped_logs[i], t)

\* C3: at every point of the loop and in every forwarded payload, every key of
\* grouped_logs is a non-empty string.
C3_KeysNonEmpty ==
    /\ \A i \in Invocations :
          \A a \in 1..Len(grouped_logs[i]) : grouped_logs[i][a].key # ""
    /\ \A c \in 1..Len(sent) :
          \A a \in 1..Len(sent[c].timelogs) : sent[c].timelogs[a].key # ""

RECURSIVE SumSizes(_)
SumSizes(d) == IF d = <<>> THEN 0 ELSE Len(Head(d).logs) + SumSizes(Tail(d))

MissingBoth(logs) == Len(SelectSeq(logs, LAMBDA t : ~HasIdentifier(t)))

\* C5: in every forwarded payload the summary counts the whole serialized
\* sequence, and the group sizes add up to that count minus the number of
\* records missing both identifying fields.
C5_CountVersusCoverage ==
    \A c \in 1..Len(sent) :
        LET logs == serialized[sent[c].by] IN
        /\ sent[c].message = Summary(Len(logs))
        /\ SumSizes(sent[c].timelogs) = Len(logs) - MissingBoth(logs)

\* C7: of two records that the loop has filed, those whose identifiers have the
\* same string form are in the same group and those whose identifiers have
\* different string forms are never in the same group.
C7_Normalisation ==
    \A i \in Invocations :
        pc[i] = "group" /\ idx[i] = Len(serialized[i]) =>
            \A j, k \in 1..Len(serialized[i]) :
                LET t == serialized[i][j]
                    u == serialized[i][k]
                    d == grouped_logs[i]
                IN j # k /\ Filed(d, t) /\ Filed(d, u) =>
                      IF str(Identifier(t)) = str(Identifier(u))
                      THEN \E a \in 1..Len(d) :
                              FiledUnder(d, d[a].key, t) /\ FiledUnder(d, d[a].key, u)
                      ELSE t # u =>
                           ~\E a \in 1..Len(d) :
                              FiledUnder(d, d[a].key, t) /\ FiledUnder(d, d[a].key, u)

-----------------------------------------------------------------------------
(* C6 *)

\* C6: an invocation calls send_dashboard_update at most once; once it has
\* ended with decode, parse, fetch and serialize succeeded it has called it
\* exactly once, with target "all", event type "bulk_timelog_lookup", the
\* grouping of the whole serialized sequence and the summary of its length (the
\* empty mapping and 0 for an empty record set); an invocation in which decode,
\* parse or fetch failed has called it zero times, and one in which decode or
\* parse failed has not fetched.
C6_ForwardOnce ==
    \A i \in Invocations :
        /\ Len(CallsBy(i)) <= 1
        /\ Terminated(i) /\ fetch_log[i] = <<"ok">>
              => /\ Len(CallsBy(i)) = 1
                 /\ CallsBy(i)[1].target = "all"
                 /\ CallsBy(i)[1].event_type = "bulk_timelog_lookup"
                 /\ IsGroupingOf(CallsBy(i)[1].timelogs, serialized[i])
                 /\ CallsBy(i)[1].message = Summary(Len(serialized[i]))
                 /\ serialized[i] = <<>> => CallsBy(i)[1].timelogs = <<>>
        /\ Terminated(i) /\ fetch_log[i] # <<"ok">> => Len(CallsBy(i)) = 0
        /\ DecodeFails(i) \/ ParseFails(i) => fetch_log[i] = <<>>
        /\ Len(fetch_log[i]) <= 1

\* an invocation that fetched an empty record set and still forwarded
C6_Witness ==
    \E i \in Invocations :
        /\ pc[i] = "done" /\ serialized[i] = <<>> /\ fetch_log[i] = <<"ok">>
        /\ Len(CallsBy(i)) = 1
        /\ CallsBy(i)[1].timelogs = <<>>
        /\ CallsBy(i)[1].message = Summary(0)

-----------------------------------------------------------------------------
(* C8 *)

\* C8: once the parse step is over, for a text whose first pass yields a
\* non-string the payload is that value and one pass ran; for a text whose first
\* pass yields a string exactly two passes ran and the payload is the result of
\* the second (a str when the text was wrapped twice over); a text that is not
\* JSON on either pass fails the invocation with JSONDecodeError.
C8_DoubleDecode ==
    \A i \in Invocations :
        pc[i] \notin {"idle", "decode", "parse"} /\ ~DecodeFails(i) =>
            LET first_pass == json_loads(raw_data[i]) IN
            /\ raw_data[i] = event[i].text
            /\ first_pass = JSONDecodeError
                  => parse_passes[i] = 1 /\ pc[i] = "failed"
                     /\ raised[i] = "JSONDecodeError"
            /\ first_pass # JSONDecodeError /\ first_pass.type # "str"
                  => parse_passes[i] = 1 /\ data[i] = first_pass
                     /\ raised[i] # "JSONDecodeError"
            /\ first_pass # JSONDecodeError /\ first_pass.type = "str"
                  => /\ parse_passes[i] = 2
                     /\ IF json_loads(first_pass.text) = JSONDecodeError
                        THEN pc[i] = "failed" /\ raised[i] = "JSONDecodeError"
                        ELSE /\ data[i] = json_loads(first_pass.text)
                             /\ raised[i] # "JSONDecodeError"

\* a text wrapped twice over: two passes ran and the payload is still a str
C8_Witness ==
    \E i \in Invocations :
        /\ raw_data[i] = <<"str", "str", "dict">>
        /\ pc[i] = "fetch"
        /\ parse_passes[i] = 2
        /\ data[i] = [type |-> "str", text |-> <<"dict">>]

-----------------------------------------------------------------------------
(* C9, C10: two invocations *)

CallArgs(c) ==
    <<c.target, c.event_type, c.timelogs, c.message>>

\* C9: two invocations that both decoded and parsed, whatever their payloads,
\* and to which the store and the serializer answered alike, have the same
\* summary and (at the same point of the loop) the same grouped_logs, make the
\* same forward call, to target "all", and, when send_dashboard_update answered
\* alike, end alike.
C9_ContentIndependent ==
    \A i, j \in Invocations :
        /\ fetch_log[i] = <<"ok">> /\ fetch_log[j] = <<"ok">>
        /\ serialized[i] = serialized[j]
        => /\ msg_str[i] = msg_str[j]
           /\ idx[i] = idx[j] => grouped_logs[i] = grouped_logs[j]
           /\ Len(CallsBy(i)) = 1 /\ Len(CallsBy(j)) = 1
                 => /\ CallArgs(CallsBy(i)[1]) = CallArgs(CallsBy(j)[1])
                    /\ CallsBy(i)[1].target = "all"
           /\ send_log[i] = send_log[j] /\ send_log[i] # <<>>
                 => pc[i] = pc[j] /\ raised[i] = raised[j]

\* two finished invocations with different payloads and the same records
C9_Witness ==
    /\ data["i1"].type = "dict" /\ data["i2"].type = "str"
    /\ pc["i1"] = "done" /\ pc["i2"] = "done"
    /\ serialized["i1"] = serialized["i2"] /\ serialized["i1"] # <<>>
    /\ grouped_logs["i1"] # <<>>
    /\ Len(sent) = 2

\* C10: every invocation that reached the forward step made its own call, so
\* the calls number the invocations that reached it, also for the same event
\* and equal payloads; each call carries the grouping and the summary of the
\* records its own invocation fetched; and an invocation returns normally (the
\* message is acknowledged) only when its own forward returned.
C10_Redelivery ==
    /\ Len(sent) = Cardinality({i \in Invocations : send_log[i] # <<>>})
    /\ \A i \in Invocations :
          /\ send_log[i] # <<>> => Len(CallsBy(i)) = 1
          /\ pc[i] = "done" => send_log[i] = <<"ok">> /\ Len(CallsBy(i)) = 1
    /\ \A c \in 1..Len(sent) :
          /\ IsGroupingOf(sent[c].timelogs, serialized[sent[c].by])
          /\ sent[c].message = Summary(Len(serialized[sent[c].by]))

\* the same event delivered twice, both invocations forwarded equal payloads
C10_Witness ==
    /\ event["i1"] = event["i2"]
    /\ pc["i1"] = "done" /\ pc["i2"] = "done"
    /\ Len(sent) = 2
    /\ sent[1].by # sent[2].by
    /\ CallArgs(sent[1]) = CallArgs(sent[2])
    /\ sent[1].timelogs # <<>>

====
